---- MODULE Spec2Model ----
(***************************************************************************)
(* The file hash watcher of crates/turborepo-filewatch/src/hash_watcher.rs *)
(* as a state machine: the Subscriber event loop, the package index        *)
(* (FileHashes), the hash jobs it spawns with their debouncers, and the    *)
(* clients of HashWatcher::get_file_hashes.                                *)
(***************************************************************************)
EXTENDS Integers, Sequences, FiniteSets, TLC

VARIABLES
    scope,             \* what the run is given: the repository's packages, the number of client calls
    loop,              \* the task running Subscriber::watch: "init", "running", "exited", "panicked"
    hashes,            \* watch's local FileHashes: package key -> (inputs -> HashState)
    packageData,       \* watch's local package_data: the last topology value it read
    jobs,              \* the hash jobs spawned by queue_package_hash, by Version/debouncer allocation
    hashUpdates,       \* the mpsc channel of HashUpdate, oldest first
    queries,           \* the mpsc channel of Query, oldest first
    asked,             \* per client call of get_file_hashes: the HashSpec it asked for
    replies,           \* per client call: the values sent on its oneshot sender
    exitReady,         \* exit_rx is ready (the HashWatcher was dropped)
    lastOk,            \* history: the last Ok topology value the loop read, DiscoveryNone before any
    justChanged,       \* history: the changed_packages of the file event the loop handled last,
                       \* empty once it handled any other input
    timed,             \* one HashDebouncer with its debounce() task, in time (DebouncerSpec)
    backlog            \* the completion channel and the workers that send on it, counted
                       \* (BacklogSpec)

\* the variables of the hash watcher
watcherVars == <<scope, loop, hashes, packageData, jobs, hashUpdates, queries, asked, replies,
                 exitReady, lastOk, justChanged>>

vars == <<watcherVars, timed, backlog>>

----------------------------------------------------------------------------
(* Bounds of the model *)

\* Version/debouncer pairs that can be alive at once
MaxJobs == 2
\* calls of bump() on the debouncer of DebouncerSpec
MaxBumps == 3
\* hash jobs spawned in BacklogSpec: more than the completion channel holds
MaxWorkers == 18
\* the debounce timeout, in ticks of DebouncerSpec's clock
DebounceTicks == 2
\* client calls of get_file_hashes
MaxQueries == 2

(* Program constants *)

\* mpsc::channel::<HashUpdate>(16)
HashUpdateCap == 16
\* mpsc::channel(16) of queries
QueryCap == 16

----------------------------------------------------------------------------
(* Paths: sequences of characters; "/" separates the components *)

F == <<"f">>
FN == <<"f", "/", "n">>

\* a run has one package and MaxQueries client calls, or two packages (one
\* nested in the other) and one call less
Scopes == {[packages |-> {F}, queries |-> MaxQueries],
           [packages |-> {F, FN}, queries |-> MaxQueries - 1]}

\* repo_root, and the absolute path of a repository-relative one
RepoRoot == <<"/", "r">>
Abs(p) == RepoRoot \o <<"/">> \o p
\* AbsoluteSystemPath::anchor: the path relative to repo_root
Anchor(a) == SubSeq(a, Len(RepoRoot) + 2, Len(a))

PX == <<"f", "/", "x">>
PY == <<"f", "/", "y">>
PNX == <<"f", "/", "n", "/", "x">>
PBX == <<"f", "b", "/", "x">>
PZ == <<"z">>
\* a file of package f whose name begins with the name of the nested package
PNB == <<"f", "/", "n", "b">>

\* the paths lists of the notify events the model draws from
EventPaths == {<<Abs(PX)>>, <<Abs(PX), Abs(PY)>>, <<Abs(PNX)>>, <<Abs(PX), Abs(PNX)>>,
               <<Abs(PBX)>>, <<Abs(PZ)>>, <<Abs(FN)>>, <<Abs(PNB)>>}

IsPrefix(k, p) == Len(k) <= Len(p) /\ SubSeq(p, 1, Len(k)) = k

\* the manifest of the package at root p
Manifest(p) == Abs(p) \o <<"/", "package.json">>

RECURSIVE LastSlash(_, _)
LastSlash(p, i) == IF i = 0 THEN 0 ELSE IF p[i] = "/" THEN i ELSE LastSlash(p, i - 1)

\* Path::parent: the path without its last component
Parent(p) == SubSeq(p, 1, LastSlash(p, Len(p)) - 1)

----------------------------------------------------------------------------
(* Values *)

\* Option::None of HashSpec.inputs
NoInputs == "None"
\* one set of input globs
SomeGlobs == "G"
Inputs == {NoInputs, SomeGlobs}

HashSpec(p, i) == [package_path |-> p, inputs |-> i]
NoSpec == [package_path |-> <<>>, inputs |-> NoInputs]
\* the specs clients ask for: package F, with and without input globs
QuerySpecs == {HashSpec(F, i) : i \in Inputs}

\* GitHashes: val is what the hash facility returned; stale records that a file
\* event of the package was handled after the hashing call had started
GitHashes(v, s) == [val |-> v, stale |-> s]
HashVals == {"h1", "h2"}
\* SCMError, as its to_string()
ScmErrors == {"scm"}
\* Result<GitHashes, SCMError> of a hashing call
HashOk(h) == [ok |-> TRUE, hashes |-> h, error |-> ""]
HashErr(e) == [ok |-> FALSE, hashes |-> GitHashes("", FALSE), error |-> e]

\* Result<GitHashes, Error> as sent to a client
OkReply(h) == [tag |-> "Ok", hashes |-> h]
\* a HashingError that forgets the reason
HashingErrorOfNoReason(r) == [tag |-> "HashingError", reason |-> ""]
HashingError(r) == [tag |-> "HashingError", reason |-> r]
\* an Unavailable that is reported as a hashing error
UnavailableAsHashingError(r) == [tag |-> "HashingError", reason |-> r]
Unavailable(r) == [tag |-> "Unavailable", reason |-> r]
\* From<mpsc::error::SendError<T>> and From<oneshot::error::RecvError> for Error:
\* Unavailable(e.to_string()); both errors display as "channel closed"
FromChannelError == [tag |-> "Unavailable", reason |-> "channel closed"]
\* an UnknownPackage that forgets the spec
UnknownPackageOfNoSpec(s) == [tag |-> "UnknownPackage", spec |-> NoSpec]
UnknownPackage(s) == [tag |-> "UnknownPackage", spec |-> s]

\* Option<Result<DiscoveryResponse, String>>
DiscoveryNone == [tag |-> "None", workspaces |-> {}]
DiscoveryErr == [tag |-> "Err", workspaces |-> {}]
DiscoveryOk(ps) == [tag |-> "Ok", workspaces |-> {Manifest(p) : p \in ps}]
DiscoveryValues ==
    {DiscoveryNone, DiscoveryErr} \cup {DiscoveryOk(ps) : ps \in SUBSET scope.packages}

\* notify::Event
FileEvent(ps) == [paths |-> ps]
FileEvents == {FileEvent(ps) : ps \in EventPaths}
\* the reasons flush_and_rehash is given: format!("file watcher error: {e}") and
\* "file watcher lagged"
FaultReasons == {"file watcher error: e", "file watcher lagged"}

\* Version(Arc<()>): the allocation; a job's debouncer is allocated with it
Versions == 1 .. MaxJobs
QueryIds == 1 .. scope.queries

\* HashState
Hashes(h) == [tag |-> "Hashes", hashes |-> h]
Pending(v, d, txs) == [tag |-> "Pending", version |-> v, debouncer |-> d, txs |-> txs]
UnavailableState(r) == [tag |-> "Unavailable", reason |-> r]

\* a Version compared by value, as a derived PartialEq would: () == ()
VersionEqDerived(a, b) == TRUE

\* a Version that equals none, itself included
VersionEqNever(a, b) == FALSE

\* Version's PartialEq: Arc::ptr_eq
VersionEq(a, b) == a = b

\* HashDebouncer.serial: None once debounce() returned; Some(n) is kept as the
\* distance n of the serial from the snapshot debounce() holds (0 or 1: the code
\* compares the two for equality only)
SerialNone == <<>>
SerialSome(n) == <<n>>

\* a hash job: the task of queue_package_hash with its Version and debouncer
IdleJob == [phase |-> "idle", spec |-> NoSpec, serial |-> SerialNone, stale |-> FALSE]
NewJob(spec) == [phase |-> "debounce", spec |-> spec, serial |-> SerialSome(0), stale |-> FALSE]

----------------------------------------------------------------------------
(* FileHashes *)

Range(s) == {s[i] : i \in DOMAIN s}

\* the state the handlers of one loop iteration work on: the index, the jobs,
\* the values sent to clients; updates is the completion channel as it stands
\* (the Versions it carries are alive); overflow: a job was needed beyond
\* MaxJobs; panicked: the handler panicked; bumps: the debouncers the handler
\* called bump() on, in order
LoopState(h, j, r) ==
    [hashes |-> h, jobs |-> j, replies |-> r, updates |-> hashUpdates,
     overflow |-> FALSE, panicked |-> FALSE, bumps |-> <<>>]

ContainsKey(h, key) ==
    /\ key.package_path \in DOMAIN h
    /\ key.inputs \in DOMAIN h[key.package_path]

Insert(h, key, value) ==
    LET states == IF key.package_path \in DOMAIN h THEN h[key.package_path] ELSE <<>>
        updated == [i \in DOMAIN states \cup {key.inputs} |->
                        IF i = key.inputs THEN value ELSE states[i]]
    IN  [k \in DOMAIN h \cup {key.package_path} |->
            IF k = key.package_path THEN updated ELSE h[k]]

\* get_mut, for reading
Get(h, key) == h[key.package_path][key.inputs]

\* Trie::get_ancestor: the longest key that is a prefix of the path's string;
\* the result is an Option: the empty set or one key
GetPackagePath(h, file_path) ==
    LET ancestors == {k \in DOMAIN h : IsPrefix(k, file_path)}
    IN  {k \in ancestors : \A o \in ancestors : Len(o) <= Len(k)}

\* a send to the first of txs only
SendFirst(r, txs, value) ==
    IF txs = <<>> THEN r ELSE [r EXCEPT ![Head(txs)] = Append(@, value)]

\* oneshot::Sender::send on each of txs, in order
RECURSIVE SendAll(_, _, _)
SendAll(r, txs, value) ==
    IF txs = <<>> THEN r
    ELSE SendAll([r EXCEPT ![Head(txs)] = Append(@, value)], Tail(txs), value)

\* a removal that notifies nobody
NotifyNobody(r, states, ins, reason) == r

\* drop_matching's inner loop over one removed key's states
RECURSIVE NotifyStates(_, _, _, _)
NotifyStates(r, states, ins, reason) ==
    IF ins = {} THEN r
    ELSE LET i == CHOOSE x \in ins : TRUE
             state == states[i]
             r1 == IF state.tag = "Pending"
                   THEN SendAll(r, state.txs, Unavailable(reason))
                   ELSE r
         IN  NotifyStates(r1, states, ins \ {i}, reason)

\* a drop_matching that keeps every key
DropNoKeys(previous, kept, r, keys, f, reason) == [hashes |-> previous, replies |-> r]

\* drop_matching's loop over the keys of the previous trie; f is the predicate,
\* as a function of the key
RECURSIVE DropKeys(_, _, _, _, _, _)
DropKeys(previous, kept, r, keys, f, reason) ==
    IF keys = {} THEN [hashes |-> kept, replies |-> r]
    ELSE LET key == CHOOSE k \in keys : TRUE
             previous_value == previous[key]
         IN  IF ~f[key]
             THEN DropKeys(previous, [k \in DOMAIN kept \cup {key} |->
                                          IF k = key THEN previous_value ELSE kept[k]],
                           r, keys \ {key}, f, reason)
             ELSE DropKeys(previous, kept,
                           NotifyStates(r, previous_value, DOMAIN previous_value, reason),
                           keys \ {key}, f, reason)

DropMatching(st, f, reason) ==
    LET res == DropKeys(st.hashes, <<>>, st.replies, DOMAIN st.hashes, f, reason)
    IN  [st EXCEPT !.hashes = res.hashes, !.replies = res.replies]

\* a drain that leaves the index alone
DrainNothing(st, reason) == st

\* a drain that empties the index and tells nobody
DrainSilently(st, reason) == [st EXCEPT !.hashes = <<>>]

Drain(st, reason) == DropMatching(st, [k \in DOMAIN st.hashes |-> TRUE], reason)

----------------------------------------------------------------------------
(* Versions, debouncers and hash jobs *)

\* the Versions some Arc clone still points to: held by a Pending state, by a
\* job, or by a HashUpdate in the channel
EntryVersions(h) ==
    {h[e[1]][e[2]].version : e \in {e \in (DOMAIN h) \X Inputs :
                                        e[2] \in DOMAIN h[e[1]] /\ h[e[1]][e[2]].tag = "Pending"}}
JobVersions(j) == {v \in Versions : j[v].phase # "idle"}
UpdateVersions(us) == {us[n].version : n \in DOMAIN us}
LiveVersions(st) == EntryVersions(st.hashes) \cup JobVersions(st.jobs) \cup UpdateVersions(st.updates)

\* a Version taken without regard to the HashUpdates still in the channel
NewVersionUnawareOfUpdates(st) ==
    LET free == Versions \ (EntryVersions(st.hashes) \cup JobVersions(st.jobs))
    IN  IF free = {} THEN 0 ELSE CHOOSE v \in free : \A w \in free : v <= w

\* Version::default() and Arc::new(HashDebouncer::default()): an allocation no
\* live Arc has; which one is immaterial (the allocations are interchangeable),
\* so the lowest is taken; 0 when MaxJobs are alive
NewVersion(st) ==
    LET free == Versions \ LiveVersions(st)
    IN  IF free = {} THEN 0 ELSE CHOOSE v \in free : \A w \in free : v <= w

\* a launcher that hands out a Version and spawns no task
QueueWithoutJob(st, spec) ==
    [version |-> NewVersion(st), debouncer |-> NewVersion(st),
     st |-> [st EXCEPT !.overflow = NewVersion(st) = 0]]

\* queue_package_hash: the new (Version, debouncer) and the state with the job spawned
QueuePackageHash(st, spec) ==
    LET version == NewVersion(st)
    IN  IF version = 0
        THEN [version |-> 0, debouncer |-> 0, st |-> [st EXCEPT !.overflow = TRUE]]
        ELSE [version |-> version, debouncer |-> version,
              st |-> [st EXCEPT !.jobs[version] = NewJob(spec)]]

\* a bump that reports success whatever the serial
BumpBlind(j, d) == [ok |-> TRUE, jobs |-> j]

\* a bump that reports failure and leaves the serial
BumpRefused(j, d) == [ok |-> FALSE, jobs |-> j]

\* a bump that reports success on a live debouncer and leaves the serial
BumpSilent(j, d) ==
    IF d \notin Versions \/ j[d].serial = SerialNone
    THEN [ok |-> FALSE, jobs |-> j]
    ELSE [ok |-> TRUE, jobs |-> j]

\* HashDebouncer::bump
Bump(j, d) ==
    IF d \notin Versions \/ j[d].serial = SerialNone
    THEN [ok |-> FALSE, jobs |-> j]
    ELSE [ok |-> TRUE, jobs |-> [j EXCEPT ![d].serial = SerialSome(1)]]

----------------------------------------------------------------------------
(* The handlers of the event loop *)

\* oneshot::Sender::send(value) on tx
Send(r, tx, value) == [r EXCEPT ![tx] = Append(@, value)]

\* a query that counts as a change: the waiter is pushed and the debouncer bumped
EnqueueAndBump(st, spec, state, tx) ==
    [st EXCEPT !.hashes = Insert(@, spec,
                    Pending(state.version, state.debouncer, Append(state.txs, tx))),
               !.jobs = Bump(@, state.debouncer).jobs]

\* handle_query on HashState::Pending: txs.push(tx)
Enqueue(st, spec, state, tx) ==
    [st EXCEPT !.hashes = Insert(@, spec,
                    Pending(state.version, state.debouncer, Append(state.txs, tx)))]

\* handle_query for Query::GetHash(spec, tx); gone: the client has dropped the
\* receiver of tx (send then fails, and the unwrap() on the Hashes branch panics)
HandleQuery(st, spec, tx, gone) ==
    IF ContainsKey(st.hashes, spec)
    THEN LET state == Get(st.hashes, spec)
         IN  CASE state.tag = "Hashes" ->
                    [st EXCEPT !.replies = Send(@, tx, OkReply(state.hashes)),
                               !.panicked = gone]
               [] state.tag = "Pending" -> Enqueue(st, spec, state, tx)
               [] state.tag = "Unavailable" ->
                    [st EXCEPT !.replies = Send(@, tx, HashingError(state.reason))]
    ELSE [st EXCEPT !.replies = Send(@, tx, UnknownPackage(spec))]

\* handle_hash_update
HandleHashUpdate(st, update) ==
    IF ContainsKey(st.hashes, update.spec)
    THEN LET state == Get(st.hashes, update.spec)
         IN  IF state.tag = "Pending" /\ VersionEq(state.version, update.version)
             THEN IF update.result.ok
                  THEN [st EXCEPT
                          !.replies = SendAll(@, state.txs, OkReply(update.result.hashes)),
                          !.hashes = Insert(@, update.spec, Hashes(update.result.hashes))]
                  ELSE [st EXCEPT
                          !.replies = SendAll(@, state.txs, HashingError(update.result.error)),
                          !.hashes = Insert(@, update.spec, UnavailableState(update.result.error))]
             ELSE st
    ELSE st

\* handle_file_event's first loop: the packages the event's paths belong to
ChangedPackages(h, event) ==
    UNION {GetPackagePath(h, Anchor(path)) : path \in Range(event.paths)}

\* a change that leaves a settled entry as it is
OverwriteNothing(st, spec, queued) == st

\* handle_file_event on an entry that is not Pending: the entry is overwritten
\* with a new pending calculation; queued is what queue_package_hash returned
Overwrite(st, spec, queued) ==
    [queued.st EXCEPT !.hashes = Insert(@, spec,
                          Pending(queued.version, queued.debouncer, <<>>))]

\* the body of handle_file_event's second loop, for one changed package
RehashPackage(st, package_path) ==
    LET spec == HashSpec(package_path, NoInputs)
        queued == QueuePackageHash(st, spec)
    IN  IF ~ContainsKey(st.hashes, spec)
        THEN [queued.st EXCEPT !.hashes = Insert(@, spec,
                                    Pending(queued.version, queued.debouncer, <<>>))]
        ELSE LET entry == Get(st.hashes, spec)
             IN  IF entry.tag = "Pending"
                 THEN LET bumped == Bump(st.jobs, entry.debouncer)
                      IN  IF ~bumped.ok
                          THEN [queued.st EXCEPT
                                    !.hashes = Insert(@, spec,
                                        Pending(queued.version, queued.debouncer, entry.txs)),
                                    !.bumps = Append(@, entry.debouncer)]
                          ELSE [st EXCEPT !.jobs = bumped.jobs,
                                          !.bumps = Append(@, entry.debouncer)]
                 ELSE Overwrite(st, spec, queued)

RECURSIVE RehashAll(_, _)
RehashAll(st, changed_packages) ==
    IF changed_packages = {} THEN st
    ELSE LET package_path == CHOOSE p \in changed_packages : TRUE
         IN  RehashAll(RehashPackage(st, package_path), changed_packages \ {package_path})

\* a handler that takes the event's paths one by one, each with its package
RECURSIVE RehashPaths(_, _)
RehashPaths(st, paths) ==
    IF paths = <<>> THEN st
    ELSE LET found == GetPackagePath(st.hashes, Anchor(Head(paths)))
         IN  RehashPaths(IF found = {} THEN st
                         ELSE RehashPackage(st, CHOOSE package_path \in found : TRUE),
                         Tail(paths))

HandleFileEventPerPath(st, event) == RehashPaths(st, event.paths)

HandleFileEvent(st, event) == RehashAll(st, ChangedPackages(st.hashes, event))

\* a topology update that schedules nothing
QueueNoPackages(st, package_paths) == st

\* a topology update that schedules every package it names, indexed or not
RECURSIVE QueueEveryPackage(_, _)
QueueEveryPackage(st, package_paths) ==
    IF package_paths = {} THEN st
    ELSE LET package_path == CHOOSE p \in package_paths : TRUE
             spec == HashSpec(package_path, NoInputs)
             queued == QueuePackageHash(st, spec)
         IN  QueueEveryPackage([queued.st EXCEPT !.hashes = Insert(@, spec,
                                    Pending(queued.version, queued.debouncer, <<>>))],
                               package_paths \ {package_path})

\* handle_package_data_update's loop over package_paths
RECURSIVE QueueNewPackages(_, _)
QueueNewPackages(st, package_paths) ==
    IF package_paths = {} THEN st
    ELSE LET package_path == CHOOSE p \in package_paths : TRUE
             spec == HashSpec(package_path, NoInputs)
             queued == QueuePackageHash(st, spec)
             st1 == IF ~ContainsKey(st.hashes, spec)
                    THEN [queued.st EXCEPT !.hashes = Insert(@, spec,
                                    Pending(queued.version, queued.debouncer, <<>>))]
                    ELSE st
         IN  QueueNewPackages(st1, package_paths \ {package_path})

\* handle_package_data_update's package_paths: the parent of each workspace's
\* package.json, anchored at the repository root
PackagePaths(package_data) == {Anchor(Parent(ws)) : ws \in package_data.workspaces}

HandlePackageDataUpdate(st, package_data) ==
    IF package_data.tag = "Ok"
    THEN LET package_paths == PackagePaths(package_data)
             dropped == DropMatching(st, [k \in DOMAIN st.hashes |-> k \notin package_paths],
                                     "package was removed")
         IN  QueueNewPackages(dropped, package_paths)
    ELSE Drain(st, "package discovery is unavailable")

\* a flush that schedules nothing
FlushOnly(st, package_data, reason) == Drain(st, reason)

\* flush_and_rehash
FlushAndRehash(st, package_data, reason) ==
    HandlePackageDataUpdate(Drain(st, reason), package_data)

\* the hashing calls of these packages that have started, the results they
\* produced and the hashes still served: a file event of the package was handled
\* after the call started
MarkStaleJobs(j, pkgs) ==
    [v \in Versions |->
        IF j[v].phase = "hash" /\ j[v].spec.package_path \in pkgs
        THEN [j[v] EXCEPT !.stale = TRUE] ELSE j[v]]

StaleResult(result) ==
    IF result.ok THEN [result EXCEPT !.hashes.stale = TRUE] ELSE result

MarkStaleUpdates(us, pkgs) ==
    [n \in DOMAIN us |->
        IF us[n].spec.package_path \in pkgs
        THEN [us[n] EXCEPT !.result = StaleResult(@)] ELSE us[n]]

MarkStaleHashes(h, pkgs) ==
    [k \in DOMAIN h |->
        [i \in DOMAIN h[k] |->
            IF k \in pkgs /\ h[k][i].tag = "Hashes"
            THEN [h[k][i] EXCEPT !.hashes.stale = TRUE] ELSE h[k][i]]]

----------------------------------------------------------------------------
(* HashDebouncer in time: one debouncer, the task that runs debounce() on it *)
(* and the callers of bump(). Time advances in ticks; a timer is ready from  *)
(* its deadline on, and the task may run late.                               *)

\* HashDebouncer::new, with the task spawned and debounce() not yet polled.
\*   serial    the Mutex<Option<usize>>
\*   permit    the Notify holds a notification for the next notified()
\*   pc        debounce(): "spawned" (not started), "waiting" (in select!), "returned"
\*   snapshot  debounce()'s local serial
\*   remaining ticks until debounce()'s local deadline
\*   history:  quiet     ticks since debounce() started or, later, since the last
\*                       bump() that returned true (counted up to DebounceTicks)
\*             calls     bump() calls so far; accepted: those that returned true
\*             result    what the last bump() returned ("none" before any)
\*             timely    every bump() so far came less than DebounceTicks after
\*                       the start of debounce() or the bump() before it
\*             returns   how many times debounce() returned (the task then
\*                       dispatches the hashing call)
NewDebouncer ==
    [serial |-> SerialSome(0), permit |-> FALSE, pc |-> "spawned", snapshot |-> 0,
     remaining |-> 0, quiet |-> 0, calls |-> 0, accepted |-> 0, result |-> "none",
     timely |-> TRUE, returns |-> 0]

\* a serial that bump() leaves as it was
SameSerial(previous) == previous

\* bump(): Some(previous + 1)
NextSerial(previous) == previous + 1

\* a timer path that does not look at the serial
SerialUnchecked(d) == TRUE

\* a serial that never compares equal to the one last observed
SerialNeverSame(d) == FALSE

\* current_serial == serial, under the lock
SerialUnchanged(d) == d.serial = SerialSome(d.snapshot)

\* bump() on a live debouncer: the serial moves on, notify_one(), true
BumpLive ==
    /\ timed.calls < MaxBumps
    /\ timed.serial # SerialNone
    /\ timed' = [timed EXCEPT !.serial = SerialSome(NextSerial(timed.serial[1])),
                              !.permit = TRUE,
                              !.calls = @ + 1, !.accepted = @ + 1, !.result = "true",
                              !.timely = @ /\ timed.quiet < DebounceTicks,
                              !.quiet = 0]
    /\ UNCHANGED <<watcherVars, backlog>>

\* bump() on a terminal debouncer: false
BumpTerminal ==
    /\ timed.calls < MaxBumps
    /\ timed.serial = SerialNone
    /\ timed' = [timed EXCEPT !.calls = @ + 1, !.result = "false", !.timely = FALSE]
    /\ UNCHANGED <<watcherVars, backlog>>

\* debounce() up to its loop: the serial is read, the deadline is now + timeout
DebounceStart ==
    /\ timed.pc = "spawned"
    /\ timed' = [timed EXCEPT !.pc = "waiting", !.snapshot = timed.serial[1],
                              !.remaining = DebounceTicks, !.quiet = 0]
    /\ UNCHANGED <<watcherVars, backlog>>

\* select!: notified(), and the serial is the one last observed: continue
NotifiedStale ==
    /\ timed.pc = "waiting"
    /\ timed.permit
    /\ SerialUnchanged(timed)
    /\ timed' = [timed EXCEPT !.permit = FALSE]
    /\ UNCHANGED <<watcherVars, backlog>>

\* select!: notified(), and the serial has changed: new snapshot, new deadline
NotifiedFresh ==
    /\ timed.pc = "waiting"
    /\ timed.permit
    /\ ~SerialUnchanged(timed)
    /\ timed' = [timed EXCEPT !.permit = FALSE, !.snapshot = timed.serial[1],
                              !.remaining = DebounceTicks]
    /\ UNCHANGED <<watcherVars, backlog>>

\* select!: the timer, and the serial is the one last observed: None, return
TimeoutFire ==
    /\ timed.pc = "waiting"
    /\ timed.remaining = 0
    /\ SerialUnchanged(timed)
    /\ timed' = [timed EXCEPT !.serial = SerialNone, !.pc = "returned", !.returns = @ + 1]
    /\ UNCHANGED <<watcherVars, backlog>>

\* select!: the timer, and the serial has changed: new snapshot, new deadline
TimeoutRefresh ==
    /\ timed.pc = "waiting"
    /\ timed.remaining = 0
    /\ ~SerialUnchanged(timed)
    /\ timed' = [timed EXCEPT !.snapshot = timed.serial[1], !.remaining = DebounceTicks]
    /\ UNCHANGED <<watcherVars, backlog>>

\* one tick of the clock
Tick ==
    /\ timed.remaining > 0 \/ timed.quiet < DebounceTicks
    /\ timed' = [timed EXCEPT !.remaining = IF @ > 0 THEN @ - 1 ELSE 0,
                              !.quiet = IF @ < DebounceTicks THEN @ + 1 ELSE @]
    /\ UNCHANGED <<watcherVars, backlog>>

----------------------------------------------------------------------------
(* The completion channel under load: hash jobs by number, more of them than *)
(* the channel holds. What a HashUpdate carries plays no part in who waits   *)
(* for whom, so the jobs and the updates are counted.                        *)

\* the loop at its start: hash_update_rx alive, the channel empty, no job yet.
\*   rx       hash_update_rx is alive (the loop has not returned)
\*   spawned  hash jobs spawned so far by queue_package_hash
\*   hashing  workers in get_package_file_hashes
\*   senders  workers blocked in blocking_send: the channel was full
\*   channel  HashUpdates in the channel
NewBacklog == [rx |-> TRUE, spawned |-> 0, hashing |-> 0, senders |-> 0, channel |-> 0]

\* a channel whose closure no sender notices
ClosureUnnoticed(b) == FALSE

\* blocking_send: the receiver is gone, the send returns Err
SendFails(b) == ~b.rx

\* blocking_send: the channel has a free slot
HasRoom(b) == b.rx /\ b.channel < HashUpdateCap

\* the loop spawns a hash job (tokio::spawn and spawn_blocking do not wait);
\* its debounce() has returned and the hashing call runs
SpawnWorker ==
    /\ backlog.rx
    /\ backlog.spawned < MaxWorkers
    /\ backlog' = [backlog EXCEPT !.spawned = @ + 1, !.hashing = @ + 1]
    /\ UNCHANGED <<watcherVars, timed>>

\* the hashing call returns and blocking_send puts the HashUpdate in the channel
WorkerDelivers ==
    /\ backlog.hashing > 0
    /\ HasRoom(backlog)
    /\ backlog' = [backlog EXCEPT !.hashing = @ - 1, !.channel = @ + 1]
    /\ UNCHANGED <<watcherVars, timed>>

\* the hashing call returns and blocking_send finds the channel full: it waits
WorkerBlocks ==
    /\ backlog.hashing > 0
    /\ backlog.rx
    /\ ~HasRoom(backlog)
    /\ backlog' = [backlog EXCEPT !.hashing = @ - 1, !.senders = @ + 1]
    /\ UNCHANGED <<watcherVars, timed>>

\* a blocked blocking_send gets a slot
SenderDelivers ==
    /\ backlog.senders > 0
    /\ HasRoom(backlog)
    /\ backlog' = [backlog EXCEPT !.senders = @ - 1, !.channel = @ + 1]
    /\ UNCHANGED <<watcherVars, timed>>

\* blocking_send returns Err, at once or after waiting: let _ = drops the result
WorkerGivesUp ==
    /\ backlog.hashing > 0
    /\ SendFails(backlog)
    /\ backlog' = [backlog EXCEPT !.hashing = @ - 1]
    /\ UNCHANGED <<watcherVars, timed>>

SenderGivesUp ==
    /\ backlog.senders > 0
    /\ SendFails(backlog)
    /\ backlog' = [backlog EXCEPT !.senders = @ - 1]
    /\ UNCHANGED <<watcherVars, timed>>

\* hash_update_rx.recv() and handle_hash_update: one HashUpdate leaves the
\* channel, applied or discarded
LoopReceives ==
    /\ backlog.rx
    /\ backlog.channel > 0
    /\ backlog' = [backlog EXCEPT !.channel = @ - 1]
    /\ UNCHANGED <<watcherVars, timed>>

\* watch returns: hash_update_rx is dropped with what the channel holds
LoopReturns ==
    /\ backlog.rx
    /\ backlog' = [backlog EXCEPT !.rx = FALSE, !.channel = 0]
    /\ UNCHANGED <<watcherVars, timed>>

----------------------------------------------------------------------------
(* The state after HashWatcher::new *)

Constructed ==
    /\ loop = "init"
    /\ hashes = <<>>
    /\ packageData = DiscoveryNone
    /\ jobs = [v \in Versions |-> IdleJob]
    /\ hashUpdates = <<>>
    /\ queries = <<>>
    /\ asked = [q \in QueryIds |-> NoSpec]
    /\ replies = [q \in QueryIds |-> <<>>]
    /\ exitReady = FALSE
    /\ lastOk = DiscoveryNone
    /\ justChanged = {}
    /\ timed = NewDebouncer
    /\ backlog = NewBacklog

Init ==
    /\ scope \in Scopes
    /\ Constructed

Terminated == loop \in {"exited", "panicked"}

\* the loop takes over what a handler left; a handler that panicked unwinds the
\* task, dropping the index and the receivers of both mpsc channels
Commit(st, queries_left) ==
    /\ ~st.overflow
    /\ replies' = st.replies
    /\ jobs' = st.jobs
    /\ IF st.panicked
       THEN /\ loop' = "panicked"
            /\ hashes' = <<>>
            /\ hashUpdates' = <<>>
            /\ queries' = <<>>
       ELSE /\ loop' = "running"
            /\ hashes' = st.hashes
            /\ hashUpdates' = st.updates
            /\ queries' = queries_left

----------------------------------------------------------------------------
(* Clients and the owner of the HashWatcher *)

Answered(q) == replies[q] # <<>>
Outstanding(q) == asked[q] # NoSpec /\ ~Answered(q)

NextQuery == Cardinality({q \in QueryIds : asked[q] # NoSpec}) + 1

\* the oneshot sender of call q is alive: in a Query in the channel, or in the
\* waiter list of a Pending state
SenderHeld(q) ==
    \/ \E n \in DOMAIN queries : queries[n].tx = q
    \/ \E spec \in {HashSpec(e[1], e[2]) : e \in {e \in (DOMAIN hashes) \X Inputs :
                                                  e[2] \in DOMAIN hashes[e[1]]}} :
          /\ Get(hashes, spec).tag = "Pending"
          /\ q \in Range(Get(hashes, spec).txs)

\* what get_file_hashes returns for call q once it was made: rx.await yields
\* the value sent on the sender; while the sender is alive without a value the
\* call waits; with the sender gone (query_tx.send failed because query_rx was
\* dropped, or the Query or the Pending state that held it was dropped) the
\* error of the channel is converted
Waiting == [tag |-> "Waiting"]
CallResult(q) ==
    IF replies[q] # <<>> THEN Head(replies[q])
    ELSE IF SenderHeld(q) THEN Waiting
    ELSE FromChannelError

\* get_file_hashes(spec): the query is sent, unless query_rx is gone
GetFileHashes(spec) ==
    /\ ~exitReady
    /\ NextQuery \in QueryIds
    /\ Len(queries) < QueryCap
    /\ asked' = [asked EXCEPT ![NextQuery] = spec]
    /\ queries' = IF Terminated THEN queries
                  ELSE Append(queries, [spec |-> spec, tx |-> NextQuery])
    /\ UNCHANGED <<timed, backlog, scope, lastOk, justChanged, loop, hashes, packageData, jobs, hashUpdates, replies, exitReady>>

\* the HashWatcher is dropped, and _exit_tx with it
Shutdown ==
    /\ ~Terminated
    /\ ~exitReady
    /\ exitReady' = TRUE
    /\ UNCHANGED <<timed, backlog, scope, lastOk, justChanged, loop, hashes, packageData, jobs, hashUpdates, queries, asked, replies>>

----------------------------------------------------------------------------
(* Subscriber::watch *)

\* file_events.get() fails: watch returns before its loop
WatchUnavailable ==
    /\ loop = "init"
    /\ loop' = "exited"
    /\ queries' = <<>>
    /\ justChanged' = {}
    /\ UNCHANGED <<timed, backlog, scope, lastOk, hashes, packageData, jobs, hashUpdates, asked, replies, exitReady>>

\* watch up to its loop: the first handle_package_data_update, on the value
\* package_discovery holds
WatchStart(value) ==
    /\ loop = "init"
    /\ packageData' = value
    /\ Commit(HandlePackageDataUpdate(LoopState(hashes, jobs, replies), value), queries)
    /\ lastOk' = IF value.tag = "Ok" THEN value ELSE lastOk
    /\ justChanged' = {}
    /\ UNCHANGED <<timed, backlog, scope, asked, exitReady>>

\* select! is biased: a branch runs when no branch before it is ready. What
\* package discovery and the file watcher deliver is an input of the branch
\* that receives it.
\* an exit branch that is never taken
ExitBranchNeverReady == FALSE
ExitBranchReady == exitReady
UpdateBranchReady == hashUpdates # <<>>
QueryBranchReady == queries # <<>>

\* exit_rx: return
LoopExit ==
    /\ loop = "running"
    /\ ExitBranchReady
    /\ loop' = "exited"
    /\ hashes' = <<>>
    /\ hashUpdates' = <<>>
    /\ queries' = <<>>
    /\ justChanged' = {}
    /\ UNCHANGED <<timed, backlog, scope, lastOk, packageData, jobs, asked, replies, exitReady>>

\* package_discovery.changed(): the value is read and handled
LoopDiscovery(value) ==
    /\ loop = "running"
    /\ ~ExitBranchReady
    /\ packageData' = value
    /\ Commit(HandlePackageDataUpdate(LoopState(hashes, jobs, replies), value), queries)
    /\ lastOk' = IF value.tag = "Ok" THEN value ELSE lastOk
    /\ justChanged' = {}
    /\ UNCHANGED <<timed, backlog, scope, asked, exitReady>>

\* file_events_recv.recv() => Ok(Ok(event))
LoopFileEvent(event) ==
    /\ loop = "running"
    /\ ~ExitBranchReady
    /\ LET changed == ChangedPackages(hashes, event)
           st == HandleFileEvent(LoopState(hashes, jobs, replies), event)
       IN  Commit([st EXCEPT !.jobs = MarkStaleJobs(@, changed),
                             !.updates = MarkStaleUpdates(@, changed),
                             !.hashes = MarkStaleHashes(@, changed)], queries)
    /\ justChanged' = ChangedPackages(hashes, event)
    /\ UNCHANGED <<timed, backlog, scope, lastOk, packageData, asked, exitReady>>

\* file_events_recv.recv() => Ok(Err(e)), and Err(Lagged(_))
LoopWatcherFault(reason) ==
    /\ loop = "running"
    /\ ~ExitBranchReady
    /\ Commit(FlushAndRehash(LoopState(hashes, jobs, replies), packageData, reason), queries)
    /\ justChanged' = {}
    /\ UNCHANGED <<timed, backlog, scope, lastOk, packageData, asked, exitReady>>

\* file_events_recv.recv() => Err(Closed): drain and return
LoopWatcherClosed ==
    /\ loop = "running"
    /\ ~ExitBranchReady
    /\ replies' = Drain(LoopState(hashes, jobs, replies), "file watcher closed").replies
    /\ loop' = "exited"
    /\ hashes' = <<>>
    /\ hashUpdates' = <<>>
    /\ queries' = <<>>
    /\ justChanged' = {}
    /\ UNCHANGED <<timed, backlog, scope, lastOk, packageData, jobs, asked, exitReady>>

\* hash_update_rx.recv()
LoopHashUpdate ==
    /\ loop = "running"
    /\ ~ExitBranchReady
    /\ UpdateBranchReady
    /\ LET st == LoopState(hashes, jobs, replies)
       IN  Commit(HandleHashUpdate([st EXCEPT !.updates = Tail(hashUpdates)],
                                   Head(hashUpdates)), queries)
    /\ justChanged' = {}
    /\ UNCHANGED <<timed, backlog, scope, lastOk, packageData, asked, exitReady>>

\* query_rx.recv(); gone: the future of get_file_hashes was dropped meanwhile
LoopQuery(gone) ==
    /\ loop = "running"
    /\ ~ExitBranchReady /\ ~UpdateBranchReady
    /\ QueryBranchReady
    /\ LET query == Head(queries)
       IN  Commit(HandleQuery(LoopState(hashes, jobs, replies), query.spec, query.tx,
                              gone), Tail(queries))
    /\ justChanged' = {}
    /\ UNCHANGED <<timed, backlog, scope, lastOk, packageData, asked, exitReady>>

----------------------------------------------------------------------------
(* The hash jobs: the tasks spawned by queue_package_hash *)

\* debounce() wakes (notified, or the timer) and finds the serial changed: it
\* takes the new serial and a new deadline
DebounceWake(v) ==
    /\ jobs[v].phase = "debounce"
    /\ jobs[v].serial = SerialSome(1)
    /\ jobs' = [jobs EXCEPT ![v].serial = SerialSome(0)]
    /\ UNCHANGED <<timed, backlog, scope, lastOk, justChanged, loop, hashes, packageData, hashUpdates, queries, asked, replies, exitReady>>

\* the timer expires with the serial as last observed: the serial becomes None,
\* debounce() returns and the hashing call is dispatched
DebounceFire(v) ==
    /\ jobs[v].phase = "debounce"
    /\ jobs[v].serial = SerialSome(0)
    /\ jobs' = [jobs EXCEPT ![v].serial = SerialNone, ![v].phase = "hash"]
    /\ UNCHANGED <<timed, backlog, scope, lastOk, justChanged, loop, hashes, packageData, hashUpdates, queries, asked, replies, exitReady>>

\* get_package_file_hashes returns and blocking_send delivers the HashUpdate,
\* or fails because hash_update_rx is gone
HashComplete(v, result) ==
    /\ jobs[v].phase = "hash"
    /\ Terminated \/ Len(hashUpdates) < HashUpdateCap
    /\ hashUpdates' =
         IF Terminated THEN hashUpdates
         ELSE Append(hashUpdates,
                     [spec |-> jobs[v].spec, version |-> v,
                      result |-> IF jobs[v].stale THEN StaleResult(result) ELSE result])
    /\ jobs' = [jobs EXCEPT ![v] = IdleJob]
    /\ UNCHANGED <<timed, backlog, scope, lastOk, justChanged, loop, hashes, packageData, queries, asked, replies, exitReady>>

HashResults == {HashOk(GitHashes(h, FALSE)) : h \in HashVals} \cup {HashErr(e) : e \in ScmErrors}

----------------------------------------------------------------------------

Next ==
    \/ \E spec \in QuerySpecs : GetFileHashes(spec)
    \/ Shutdown
    \/ WatchUnavailable
    \/ \E value \in DiscoveryValues : WatchStart(value)
    \/ LoopExit
    \/ \E value \in DiscoveryValues : LoopDiscovery(value)
    \/ \E event \in FileEvents : LoopFileEvent(event)
    \/ \E reason \in FaultReasons : LoopWatcherFault(reason)
    \/ LoopWatcherClosed
    \/ LoopHashUpdate
    \/ \E gone \in BOOLEAN : LoopQuery(gone)
    \/ \E v \in Versions : DebounceWake(v)
    \/ \E v \in Versions : DebounceFire(v)
    \/ \E v \in Versions, result \in HashResults : HashComplete(v, result)

Spec == Init /\ [][Next]_vars

\* a step of the task of hash job v: debounce() and the hashing call
JobStep(v) ==
    DebounceWake(v) \/ DebounceFire(v) \/ \E result \in HashResults : HashComplete(v, result)

\* the loop reads a changed topology value
HandlesDiscovery == \E value \in DiscoveryValues : LoopDiscovery(value)

\* the loop handles the query at the head of the query channel
HandlesQuery == \E gone \in BOOLEAN : LoopQuery(gone)

\* the hash watcher under a runtime that runs every task that can go on: the
\* loop takes a branch of its select! that is ready (exit, a completion, a
\* query), a hash job's debounce() returns when its timer expires, and the
\* hash facility returns. One package and one client call less than MaxQueries,
\* to keep the behaviours few.
FairInit ==
    /\ scope = [packages |-> {F}, queries |-> MaxQueries - 1]
    /\ Constructed

FairSpec ==
    /\ FairInit
    /\ [][Next]_vars
    /\ WF_vars(LoopExit)
    /\ WF_vars(LoopHashUpdate)
    /\ WF_vars(HandlesQuery)
    /\ \A v \in Versions : WF_vars(JobStep(v))

\* the debouncer alone: the hash watcher stays as constructed
DebouncerInit ==
    /\ Init
    /\ scope.packages = {F}

DebouncerNext ==
    \/ BumpLive
    \/ BumpTerminal
    \/ DebounceStart
    \/ NotifiedStale
    \/ NotifiedFresh
    \/ TimeoutFire
    \/ TimeoutRefresh
    \/ Tick

DebouncerSpec == DebouncerInit /\ [][DebouncerNext]_vars

\* the completion channel under load: the hash watcher stays as constructed
BacklogInit ==
    /\ Init
    /\ scope.packages = {F, FN}

BacklogNext ==
    \/ SpawnWorker
    \/ WorkerDelivers
    \/ WorkerBlocks
    \/ SenderDelivers
    \/ WorkerGivesUp
    \/ SenderGivesUp
    \/ LoopReceives
    \/ LoopReturns

\* a worker's step: the hash facility returns, and a blocking_send that can
\* complete (a free slot, or the receiver gone) does
WorkerStep == WorkerDelivers \/ WorkerBlocks \/ WorkerGivesUp
SenderStep == SenderDelivers \/ SenderGivesUp

\* the workers run, and the loop comes to its completion branch when a
\* HashUpdate is ready (the inputs of the branches before it do not arrive
\* without end)
BacklogSpec ==
    /\ BacklogInit
    /\ [][BacklogNext]_vars
    /\ WF_vars(WorkerStep)
    /\ WF_vars(SenderStep)
    /\ WF_vars(LoopReceives)

\* a step of the task that runs debounce(): the runtime polls a spawned task,
\* and a task in select! whose timer or notification is ready
DebounceTaskStep ==
    DebounceStart \/ NotifiedStale \/ NotifiedFresh \/ TimeoutFire \/ TimeoutRefresh

\* the debouncer with a scheduler that runs a ready task and a clock that goes on
DebouncerFairSpec ==
    /\ DebouncerSpec
    /\ WF_vars(DebounceTaskStep)
    /\ WF_vars(Tick)

----------------------------------------------------------------------------
(* Hash completions *)

\* the update at the head of the completion channel is for a spec whose entry
\* is Pending under the update's own Version
Matching(update) ==
    /\ ContainsKey(hashes, update.spec)
    /\ Get(hashes, update.spec).tag = "Pending"
    /\ Get(hashes, update.spec).version = update.version

\* C1: a hash completion changes the index, or replies to a waiter, only if the
\* entry of its spec exists, is Pending and holds the update's Version; in every
\* other case the loop leaves the index and every waiter as they were.
C1_CompletionNeedsMatchingVersion ==
    [][LoopHashUpdate /\ ~Matching(Head(hashUpdates))
          => hashes' = hashes /\ replies' = replies]_vars

\* a superseded completion is next in the channel while its spec is Pending
\* under a newer Version, with a client waiting
C1_SupersededCompletionArrives ==
    /\ loop = "running" /\ ~exitReady
    /\ hashUpdates # <<>>
    /\ LET update == Head(hashUpdates)
       IN  /\ ContainsKey(hashes, update.spec)
           /\ Get(hashes, update.spec).tag = "Pending"
           /\ Get(hashes, update.spec).version # update.version
           /\ Get(hashes, update.spec).txs # <<>>

----------------------------------------------------------------------------
(* Waiters *)

\* the specs whose entry is Pending
PendingSpecs(h) ==
    {HashSpec(e[1], e[2]) : e \in {e \in (DOMAIN h) \X Inputs :
                                      e[2] \in DOMAIN h[e[1]] /\ h[e[1]][e[2]].tag = "Pending"}}

\* the reply channel of call q is in the waiter list of spec's Pending entry
WaitsOn(h, spec, q) ==
    /\ ContainsKey(h, spec)
    /\ Get(h, spec).tag = "Pending"
    /\ q \in Range(Get(h, spec).txs)

\* C2: while the loop runs, a waiter enqueued on a Pending entry stays on the
\* waiter list of that spec's Pending entry (a fresh Pending that replaces the
\* entry takes the list over) until the step in which it is sent its one reply;
\* no completion, replacement, removal or drain takes it off unanswered, an
\* enqueued waiter has not been replied to, and no reply channel is ever sent
\* more than one reply. (When the loop's task ends on exit or by a panic the
\* index is destroyed, not transitioned: the waiters see their channel closed.)
C2_WaitersAnsweredExactlyOnce ==
    /\ [](\A q \in QueryIds : Len(replies[q]) <= 1)
    /\ [](\A q \in QueryIds : \A spec \in PendingSpecs(hashes) :
              WaitsOn(hashes, spec, q) => replies[q] = <<>>)
    /\ [][\A spec \in PendingSpecs(hashes) : \A q \in Range(Get(hashes, spec).txs) :
              \/ WaitsOn(hashes', spec, q) /\ replies'[q] = replies[q]
              \/ Len(replies[q]) = 0 /\ Len(replies'[q]) = 1
              \/ loop' = "panicked"
              \/ exitReady /\ loop' = "exited"]_vars

\* a waiter was taken off a Pending entry by the removal of its package, and
\* another one is enqueued on the entry created when the package came back
C2_WaiterAnsweredOnRemoval ==
    /\ loop = "running"
    /\ \E q \in QueryIds : replies[q] = <<Unavailable("package was removed")>>
    /\ \E q \in QueryIds : \E spec \in PendingSpecs(hashes) : WaitsOn(hashes, spec, q)

----------------------------------------------------------------------------
(* File changes *)

\* C3: no query is answered Ok with hashes of a hashing call that had started
\* before a file event of the package was handled, and no such hashes are
\* stored as Ready: the call's completion is discarded (its Version was
\* replaced), or the call had not started (its debouncer was bumped).
C3_NoAnswerFromBeforeTheChange ==
    /\ \A q \in QueryIds : \A n \in DOMAIN replies[q] :
          replies[q][n].tag = "Ok" => ~replies[q][n].hashes.stale
    /\ \A k \in DOMAIN hashes : \A i \in DOMAIN hashes[k] :
          hashes[k][i].tag = "Hashes" => ~hashes[k][i].hashes.stale

\* the completion of a hashing call that started before a handled file event
\* of its package reaches the loop while a client waits on the package's entry
C3_OutdatedCompletionArrives ==
    /\ loop = "running" /\ ~exitReady
    /\ hashUpdates # <<>>
    /\ Head(hashUpdates).result.ok
    /\ Head(hashUpdates).result.hashes.stale
    /\ \E q \in QueryIds : WaitsOn(hashes, Head(hashUpdates).spec, q)

\* C4: handling a completion whose Version matches its spec's Pending entry
\* sends every waiter of the entry the one result that is stored: Ok(hashes)
\* and the entry becomes Hashes(hashes), or Err(HashingError(e)) and the entry
\* becomes Unavailable(e); no waiter list remains, and nobody else is replied to.
C4_MatchingCompletionAnswersAllWaiters ==
    [][LoopHashUpdate /\ Matching(Head(hashUpdates)) =>
          LET update == Head(hashUpdates)
              waiters == Range(Get(hashes, update.spec).txs)
              sent == IF update.result.ok
                      THEN [tag |-> "Ok", hashes |-> update.result.hashes]
                      ELSE [tag |-> "HashingError", reason |-> update.result.error]
              stored == IF update.result.ok
                        THEN [tag |-> "Hashes", hashes |-> update.result.hashes]
                        ELSE [tag |-> "Unavailable", reason |-> update.result.error]
          IN  /\ \A q \in QueryIds :
                    replies'[q] = IF q \in waiters THEN Append(replies[q], sent)
                                  ELSE replies[q]
              /\ ContainsKey(hashes', update.spec)
              /\ Get(hashes', update.spec) = stored
              /\ update.spec \notin PendingSpecs(hashes')]_vars

\* a matching completion is next in the channel and two clients wait for it
C4_MatchingCompletionForTwoWaiters ==
    /\ loop = "running" /\ ~exitReady
    /\ hashUpdates # <<>>
    /\ Matching(Head(hashUpdates))
    /\ Len(Get(hashes, Head(hashUpdates).spec).txs) = 2

----------------------------------------------------------------------------
(* Versions *)

\* C5: an entry that becomes Pending, or Pending under another Version, holds a
\* Version that no hash job and no HashUpdate in the channel carried before the
\* step; the Version of a Pending entry is held by no other Pending entry and
\* is carried only by a job or a HashUpdate of that entry's spec. So the
\* completion of a superseded job never matches.
C5_PendingGetsFreshVersion ==
    /\ [](\A spec \in PendingSpecs(hashes) :
            LET version == Get(hashes, spec).version
            IN  /\ \A other \in PendingSpecs(hashes) :
                      Get(hashes, other).version = version => other = spec
                /\ jobs[version].phase # "idle" => jobs[version].spec = spec
                /\ \A n \in DOMAIN hashUpdates :
                      hashUpdates[n].version = version => hashUpdates[n].spec = spec)
    /\ [][\A spec \in PendingSpecs(hashes') :
              \/ spec \in PendingSpecs(hashes)
                    /\ Get(hashes, spec).version = Get(hashes', spec).version
              \/ Get(hashes', spec).version
                    \notin JobVersions(jobs) \cup UpdateVersions(hashUpdates)]_vars

\* a spec is Pending under one Version while a HashUpdate of an earlier job of
\* the spec is undelivered and that job's successor is hashing
C5_SupersededJobsAlive ==
    /\ loop = "running"
    /\ \E spec \in PendingSpecs(hashes) :
          /\ jobs[Get(hashes, spec).version].phase = "hash"
          /\ \E n \in DOMAIN hashUpdates :
                /\ hashUpdates[n].spec = spec
                /\ hashUpdates[n].version # Get(hashes, spec).version

----------------------------------------------------------------------------
(* Queries *)

\* what the step sends on the reply channel of call q
SentTo(q) == SubSeq(replies'[q], Len(replies[q]) + 1, Len(replies'[q]))

\* C6: a query for a spec without an entry is sent Err(UnknownPackage(spec))
\* with the spec that was asked for, in the step that handles the query; the
\* index is left as it was and no hash job is spawned.
C6_AbsentSpecIsUnknownPackage ==
    [][HandlesQuery /\ ~ContainsKey(hashes, Head(queries).spec) =>
          LET query == Head(queries)
          IN  /\ SentTo(query.tx) = <<[tag |-> "UnknownPackage", spec |-> asked[query.tx]]>>
              /\ query.spec = asked[query.tx]
              /\ hashes' = hashes
              /\ jobs' = jobs
              /\ hashUpdates' = hashUpdates]_vars

\* a query for a spec without an entry is next, in a populated index
C6_QueryForAbsentSpec ==
    /\ loop = "running" /\ ~exitReady
    /\ hashUpdates = <<>>
    /\ queries # <<>>
    /\ hashes # <<>>
    /\ ~ContainsKey(hashes, Head(queries).spec)

\* the package of the spec is named by the topology the loop holds
InTopology(spec) ==
    /\ packageData.tag = "Ok"
    /\ Manifest(spec.package_path) \in packageData.workspaces

\* C7: a query is answered UnknownPackage only if its package is not named by
\* the current Ok topology, whatever its inputs; while the loop holds no
\* topology (None or Err) what a query is answered is Unavailable.
C7_UnknownPackageOnlyOutsideTopology ==
    [][HandlesQuery =>
          LET query == Head(queries)
              sent == SentTo(query.tx)
          IN  /\ InTopology(query.spec) =>
                    \A n \in DOMAIN sent : sent[n].tag # "UnknownPackage"
              /\ packageData.tag # "Ok" =>
                    \A n \in DOMAIN sent : sent[n].tag = "Unavailable"]_vars

\* a query with input globs, for a package the topology names, is next
C7_QueryWithGlobsForKnownPackage ==
    /\ loop = "running" /\ ~exitReady
    /\ hashUpdates = <<>>
    /\ queries # <<>>
    /\ InTopology(Head(queries).spec)
    /\ Head(queries).spec.inputs = SomeGlobs

\* the entry of the spec the query at the head of the channel asks for
Asked == Get(hashes, Head(queries).spec)

\* C8: a query on a Ready entry is sent Ok with the stored hashes, and the
\* entry is Ready with the same hashes afterwards (so that a second query
\* handled next is sent the same GitHashes).
C8_ReadyQueryLeavesEntryReady ==
    [][HandlesQuery /\ ContainsKey(hashes, Head(queries).spec) /\ Asked.tag = "Hashes" =>
          LET query == Head(queries)
          IN  /\ SentTo(query.tx) = <<[tag |-> "Ok", hashes |-> Asked.hashes]>>
              /\ ContainsKey(hashes', query.spec)
              /\ Get(hashes', query.spec) = Asked]_vars

\* a query for a Ready spec is next, after another one was answered Ok
C8_SecondQueryOnReadyEntry ==
    /\ loop = "running" /\ ~exitReady
    /\ hashUpdates = <<>>
    /\ queries # <<>>
    /\ ContainsKey(hashes, Head(queries).spec)
    /\ Asked.tag = "Hashes"
    /\ \E q \in QueryIds : replies[q] = <<[tag |-> "Ok", hashes |-> Asked.hashes]>>

\* C9: a query on a Pending entry puts its reply channel at the end of the
\* entry's waiter list and does nothing else: nothing is sent, the entry keeps
\* its Version and debouncer, the other entries, the debouncers' serials and
\* the hash jobs are as before.
C9_PendingQueryOnlyEnqueues ==
    [][HandlesQuery /\ ContainsKey(hashes, Head(queries).spec) /\ Asked.tag = "Pending" =>
          LET query == Head(queries)
          IN  /\ hashes' = [hashes EXCEPT ![query.spec.package_path][query.spec.inputs] =
                                [Asked EXCEPT !.txs = Append(Asked.txs, query.tx)]]
              /\ replies' = replies
              /\ jobs' = jobs
              /\ hashUpdates' = hashUpdates]_vars

\* a query for a Pending spec is next; the entry has a waiter already and its
\* job is still debouncing
C9_QueryOnPendingEntry ==
    /\ loop = "running" /\ ~exitReady
    /\ hashUpdates = <<>>
    /\ queries # <<>>
    /\ ContainsKey(hashes, Head(queries).spec)
    /\ Asked.tag = "Pending"
    /\ Asked.txs # <<>>
    /\ jobs[Asked.debouncer].phase = "debounce"

\* the specs whose entry is Unavailable
UnavailableSpecs(h) ==
    {HashSpec(e[1], e[2]) : e \in {e \in (DOMAIN h) \X Inputs :
                                      e[2] \in DOMAIN h[e[1]] /\ h[e[1]][e[2]].tag = "Unavailable"}}

\* C10: a query on an Unavailable(reason) entry is sent Err(HashingError(reason))
\* in the step that handles it; the index, the hash jobs and the completion
\* channel are as before. A hash job is spawned for a spec whose entry is
\* Unavailable only by a file event or by a drain and re-schedule (a watcher
\* fault), and the entry is then Pending under that job's Version.
C10_UnavailableIsCached ==
    /\ [][HandlesQuery /\ ContainsKey(hashes, Head(queries).spec)
                       /\ Asked.tag = "Unavailable" =>
              /\ SentTo(Head(queries).tx) =
                    <<[tag |-> "HashingError", reason |-> Asked.reason]>>
              /\ hashes' = hashes
              /\ jobs' = jobs
              /\ hashUpdates' = hashUpdates]_vars
    /\ [][\A spec \in UnavailableSpecs(hashes) : \A v \in Versions :
              jobs[v].phase = "idle" /\ jobs'[v].phase # "idle" /\ jobs'[v].spec = spec =>
                  /\ \/ \E event \in FileEvents : LoopFileEvent(event)
                     \/ \E reason \in FaultReasons : LoopWatcherFault(reason)
                  /\ spec \in PendingSpecs(hashes')
                  /\ Get(hashes', spec).version = v]_vars

\* a query for a spec whose hashing failed is next, after a waiter of the
\* failed job was answered
C10_QueryOnUnavailableEntry ==
    /\ loop = "running" /\ ~exitReady
    /\ hashUpdates = <<>>
    /\ queries # <<>>
    /\ ContainsKey(hashes, Head(queries).spec)
    /\ Asked.tag = "Unavailable"
    /\ \E q \in QueryIds : replies[q] = <<[tag |-> "HashingError", reason |-> Asked.reason]>>

----------------------------------------------------------------------------
(* Topology *)

\* C11, as stated: whenever the loop is between two inputs the keys of the
\* index are the packages named by the most recent Ok topology snapshot,
\* whatever topology values (Ok, Err, None) came since.
C11_IndexIsLastOkTopology ==
    loop = "running" => DOMAIN hashes = PackagePaths(lastOk)

\* C11, amended: whenever the loop is between two inputs the keys of the index
\* are the packages named by the topology value the loop holds now if that
\* value is Ok, and the index is empty if it is None or Err; every key has its
\* {P, None} entry.
C11_IndexIsCurrentTopology ==
    loop = "running" =>
        /\ DOMAIN hashes = IF packageData.tag = "Ok" THEN PackagePaths(packageData) ELSE {}
        /\ \A k \in DOMAIN hashes : NoInputs \in DOMAIN hashes[k]

\* the topology was lost after an Ok snapshot that named packages, and came
\* back or not
C11_TopologyLostAfterOk ==
    /\ loop = "running"
    /\ packageData.tag # "Ok"
    /\ PackagePaths(lastOk) # {}
    /\ hashes = <<>>

\* the waiters of every Pending state under package key k
WaitersOf(h, k) ==
    UNION {Range(h[k][i].txs) : i \in {i \in DOMAIN h[k] : h[k][i].tag = "Pending"}}

\* C12: when the loop handles an Ok topology that omits a package of the
\* index, the step sends Err(Unavailable("package was removed")) to every
\* waiter of the package's Pending states and the package's key is gone from
\* the index after the step; no state has the key gone and a waiter of it
\* still unanswered.
C12_RemovedPackageNotifiesWaiters ==
    [][HandlesDiscovery /\ packageData'.tag = "Ok" =>
          \A k \in DOMAIN hashes \ PackagePaths(packageData') :
              /\ k \notin DOMAIN hashes'
              /\ \A q \in WaitersOf(hashes, k) :
                    SentTo(q) = <<[tag |-> "Unavailable", reason |-> "package was removed"]>>]_vars

\* a waiter's package was dropped by an Ok topology that is still current
C12_WaiterOfRemovedPackage ==
    /\ loop = "running"
    /\ packageData.tag = "Ok"
    /\ \E q \in QueryIds :
          /\ replies[q] = <<[tag |-> "Unavailable", reason |-> "package was removed"]>>
          /\ asked[q].package_path \notin DOMAIN hashes

\* C13: when the loop handles a topology value of None or Err, the index is
\* empty after the step, every waiter of every Pending entry is sent
\* Err(Unavailable("package discovery is unavailable")), nobody else is sent
\* anything and no hash job is spawned.
C13_TopologyLossDrains ==
    [][HandlesDiscovery /\ packageData'.tag # "Ok" =>
          LET waiters == UNION {WaitersOf(hashes, k) : k \in DOMAIN hashes}
          IN  /\ hashes' = <<>>
              /\ \A q \in QueryIds :
                    SentTo(q) = IF q \in waiters
                                THEN <<[tag |-> "Unavailable",
                                        reason |-> "package discovery is unavailable"]>>
                                ELSE <<>>
              /\ jobs' = jobs
              /\ hashUpdates' = hashUpdates]_vars

\* a waiter was answered by the drain of a topology loss
C13_WaiterOfLostTopology ==
    /\ loop = "running"
    /\ packageData.tag # "Ok"
    /\ hashes = <<>>
    /\ \E q \in QueryIds :
          replies[q] = <<[tag |-> "Unavailable", reason |-> "package discovery is unavailable"]>>

----------------------------------------------------------------------------
(* Attribution of changed paths *)

\* the repository-relative paths file events report
ChangedPaths == {Anchor(path) : path \in UNION {Range(event.paths) : event \in FileEvents}}

\* C14: for every changed path and every index the loop reaches,
\* get_package_path is the longest key that is the path itself or a directory
\* containing it, and nothing when there is no such key; a file event leaves
\* alone every entry and job of a package that is not the innermost package of
\* one of its paths.
C14_LongestAncestorPackage ==
    /\ [](\A path \in ChangedPaths :
            LET Contains(k) == \/ k = path
                               \/ /\ Len(k) < Len(path)
                                  /\ SubSeq(path, 1, Len(k)) = k
                                  /\ path[Len(k) + 1] = "/"
                roots == {k \in DOMAIN hashes : Contains(k)}
            IN  GetPackagePath(hashes, path) =
                    {k \in roots : \A o \in roots : Len(o) <= Len(k)})
    /\ [][\A event \in FileEvents : LoopFileEvent(event) =>
            LET Contains(k, path) == \/ k = path
                                     \/ /\ Len(k) < Len(path)
                                        /\ SubSeq(path, 1, Len(k)) = k
                                        /\ path[Len(k) + 1] = "/"
                Innermost(path) ==
                    LET roots == {k \in DOMAIN hashes : Contains(k, path)}
                    IN  {k \in roots : \A o \in roots : Len(o) <= Len(k)}
                changed == UNION {Innermost(Anchor(path)) : path \in Range(event.paths)}
            IN  \A k \in DOMAIN hashes \ changed :
                    /\ k \in DOMAIN hashes'
                    /\ hashes'[k] = hashes[k]
                    /\ \A v \in Versions : jobs'[v].spec.package_path = k => jobs'[v] = jobs[v]]_vars

\* the index holds a package and the package nested in it
C14_NestedPackagesIndexed ==
    /\ loop = "running" /\ ~exitReady
    /\ {F, FN} \subseteq DOMAIN hashes

\* C15: a changed path is attributed only to a key that is the path itself or
\* a directory containing it, never to a key that is merely a prefix of the
\* path's string; a file event whose paths lie in no package of the index
\* changes no entry and spawns no job.
C15_NoFalsePrefixAttribution ==
    /\ [](\A path \in ChangedPaths : \A k \in GetPackagePath(hashes, path) :
            \/ k = path
            \/ /\ Len(k) < Len(path)
               /\ SubSeq(path, 1, Len(k)) = k
               /\ path[Len(k) + 1] = "/")
    /\ [][\A event \in FileEvents : LoopFileEvent(event) =>
            LET Contains(k, path) == \/ k = path
                                     \/ /\ Len(k) < Len(path)
                                        /\ SubSeq(path, 1, Len(k)) = k
                                        /\ path[Len(k) + 1] = "/"
            IN  (\A path \in Range(event.paths) : \A k \in DOMAIN hashes :
                      ~Contains(k, Anchor(path)))
                  => hashes' = hashes /\ jobs' = jobs]_vars

\* package f is Ready and no package fb is indexed: a change to fb/x is not
\* f's business
C15_ReadyBesideSibling ==
    /\ loop = "running" /\ ~exitReady
    /\ DOMAIN hashes = {F}
    /\ hashes[F][NoInputs].tag = "Hashes"

----------------------------------------------------------------------------
(* File events *)

\* what no handling of a file event touches: the loop goes on, the queries and
\* the topology stay, and no hash job moves on (its task does that on its own):
\* a job's serial changes by a bump only
FileEventFrame ==
    /\ loop = "running" /\ loop' = "running"
    /\ queries' = queries /\ asked' = asked /\ packageData' = packageData
    /\ \A v \in Versions :
          jobs[v].phase # "idle" =>
              /\ jobs'[v].phase = jobs[v].phase
              /\ jobs'[v].serial \in {jobs[v].serial, SerialSome(1)}

\* the sets of packages a file event can be attributed to, in this index
ChangedSets == {ChangedPackages(hashes, event) : event \in FileEvents}

\* the loop handles a file event attributed to the packages changed (what the
\* handler does depends on the event through its changed_packages only)
HandlesChange(changed) ==
    /\ FileEventFrame
    /\ LoopFileEvent(CHOOSE event \in FileEvents : ChangedPackages(hashes, event) = changed)

\* the Versions of the jobs the step spawns for spec
Spawned(spec) ==
    {v \in Versions : jobs[v].phase = "idle" /\ jobs'[v].phase # "idle" /\ jobs'[v].spec = spec}

\* the Versions nothing carries: no Pending entry, no job, no HashUpdate in the channel
Unissued == Versions \ LiveVersions(LoopState(hashes, jobs, replies))

\* C16: a file event attributed to a package whose {P, None} entry is Ready or
\* Unavailable leaves the entry Pending with an empty waiter list, under a
\* Version nothing carried before, with a debouncer that is live; the step
\* spawns exactly one hash job for the spec, the one with that Version, and it
\* is debouncing.
C16_SettledEntryRestarts ==
    [][\A changed \in ChangedSets : HandlesChange(changed) =>
          \A k \in changed :
              hashes[k][NoInputs].tag \in {"Hashes", "Unavailable"} =>
                  LET spec == HashSpec(k, NoInputs)
                      entry == hashes'[k][NoInputs]
                  IN  /\ entry.tag = "Pending"
                      /\ entry.txs = <<>>
                      /\ entry.version \in Unissued
                      /\ entry.debouncer = entry.version
                      /\ jobs'[entry.debouncer].serial # SerialNone
                      /\ jobs'[entry.version].phase = "debounce"
                      /\ Spawned(spec) = {entry.version}]_vars

\* the entry of package f is Unavailable and an allocation is free for a new job
C16_SettledEntryBeforeChange ==
    /\ loop = "running" /\ ~exitReady
    /\ F \in DOMAIN hashes
    /\ hashes[F][NoInputs].tag = "Unavailable"
    /\ Unissued # {}

\* C17: a file event attributed to a package whose {P, None} entry is Pending
\* bumps the entry's debouncer. If the debouncer is live (bump returns true)
\* the entry is unchanged, the serial has moved and no job is spawned; if it
\* is terminal (bump returns false) the entry is Pending under a Version
\* nothing carried before with a live debouncer, exactly one job is spawned,
\* and the waiter list is the old one, in order, with no waiter replied to.
C17_PendingEntryBumpsOrRestarts ==
    [][\A changed \in ChangedSets : HandlesChange(changed) =>
          \A k \in changed :
              hashes[k][NoInputs].tag = "Pending" =>
                  LET spec == HashSpec(k, NoInputs)
                      old == hashes[k][NoInputs]
                      entry == hashes'[k][NoInputs]
                  IN  IF jobs[old.debouncer].serial # SerialNone
                      THEN /\ entry = old
                           /\ jobs'[old.debouncer].serial = SerialSome(1)
                           /\ Spawned(spec) = {}
                      ELSE /\ entry.tag = "Pending"
                           /\ entry.version \in Unissued
                           /\ entry.debouncer = entry.version
                           /\ jobs'[entry.debouncer].serial # SerialNone
                           /\ Spawned(spec) = {entry.version}
                           /\ entry.txs = old.txs
                           /\ \A q \in Range(old.txs) : replies'[q] = replies[q]]_vars

\* the entry of package f is Pending with a waiter, its job is hashing (the
\* debouncer is terminal) and an allocation is free for a new job
C17_PendingEntryAfterFire ==
    /\ loop = "running" /\ ~exitReady
    /\ F \in DOMAIN hashes
    /\ hashes[F][NoInputs].tag = "Pending"
    /\ hashes[F][NoInputs].txs # <<>>
    /\ jobs[hashes[F][NoInputs].debouncer].phase = "hash"
    /\ Unissued # {}

\* C18, as stated: a file event spawns at most one hash job for each package
\* it is attributed to, and a file event handled directly after a file event
\* with the same changed packages spawns none: whenever the second is handled,
\* the debouncer of the first absorbs it.
C18_SecondEventAbsorbed ==
    [][\A changed \in ChangedSets : HandlesChange(changed) =>
          \A k \in changed :
              /\ Cardinality(Spawned(HashSpec(k, NoInputs))) <= 1
              /\ changed = justChanged => Spawned(HashSpec(k, NoInputs)) = {}]_vars

\* C18, amended: after a file event every package it is attributed to has a
\* Pending entry with a live debouncer. A file event with the same changed
\* packages handled directly after it is absorbed by that debouncer if
\* debounce() has not returned in between: no job is spawned, the entry is
\* unchanged and the serial has moved, so the job cannot fire without waking.
\* If debounce() has returned in between, the second event spawns one job of
\* its own.
C18_SecondEventAbsorbedWhileDebouncing ==
    [][\A changed \in ChangedSets : HandlesChange(changed) =>
          \A k \in changed :
              LET spec == HashSpec(k, NoInputs)
                  entry == hashes'[k][NoInputs]
              IN  /\ Cardinality(Spawned(spec)) <= 1
                  /\ entry.tag = "Pending"
                  /\ jobs'[entry.debouncer].serial # SerialNone
                  /\ changed = justChanged =>
                        LET old == hashes[k][NoInputs]
                        IN  /\ old.tag = "Pending"
                            /\ IF jobs[old.debouncer].serial # SerialNone
                               THEN /\ Spawned(spec) = {}
                                    /\ entry = old
                                    /\ jobs'[old.debouncer].serial = SerialSome(1)
                               ELSE Cardinality(Spawned(spec)) = 1]_vars

\* a file event of package f was handled last and the job it created or bumped
\* is still debouncing
C18_SecondEventWithinDebounce ==
    /\ loop = "running" /\ ~exitReady
    /\ justChanged = {F}
    /\ jobs[hashes[F][NoInputs].debouncer].phase = "debounce"

----------------------------------------------------------------------------
(* The debouncer in time (DebouncerSpec) *)

\* a call of bump() returns in this step
BumpReturns == timed'.calls = timed.calls + 1

\* debounce() returns in this step
DebounceReturns == timed.pc # "returned" /\ timed'.pc = "returned"

\* C19: debounce() returns only when a full timeout has passed since the last
\* bump() that returned true and since debounce() started; and a bump() that
\* comes less than the timeout after the one before it (the first one: after
\* the start), as all before it did, finds the debouncer live and returns
\* true - whichever of the timer and the notification the task sees first.
C19_ReturnsATimeoutAfterLastBump ==
    /\ [][DebounceReturns => timed.quiet = DebounceTicks]_vars
    /\ [][BumpReturns /\ timed.timely /\ timed.quiet < DebounceTicks =>
              /\ timed'.result = "true"
              /\ timed'.serial # SerialNone
              /\ timed'.pc # "returned"]_vars

\* two timely bumps were accepted, and the notification of the last one is
\* still to come although debounce() has its serial already
C19_NotificationAfterSerialSeen ==
    /\ timed.pc = "waiting"
    /\ timed.timely
    /\ timed.accepted >= 2
    /\ timed.permit
    /\ SerialUnchanged(timed)

\* C20: the serial is None exactly when debounce() has returned, and stays so;
\* a bump() returns true exactly when debounce() has not returned yet and
\* false otherwise; a bump() after the return changes nothing; and when
\* debounce() returns, the serial it last observed counts every bump() that
\* returned true.
C20_BumpTrueWhileLive ==
    /\ [](timed.serial = SerialNone <=> timed.pc = "returned")
    /\ [][timed.pc = "returned" => timed'.pc = "returned" /\ timed'.serial = SerialNone]_vars
    /\ [][BumpReturns =>
              IF timed.pc = "returned"
              THEN /\ timed'.result = "false"
                   /\ timed'.serial = timed.serial
                   /\ timed'.permit = timed.permit
                   /\ timed'.accepted = timed.accepted
              ELSE /\ timed'.result = "true"
                   /\ timed'.accepted = timed.accepted + 1
                   /\ timed'.permit]_vars
    /\ [][DebounceReturns => timed.snapshot = timed.accepted]_vars

\* a bump() was accepted and observed, debounce() returned, and a later
\* bump() was refused
C20_BumpRefusedAfterReturn ==
    /\ timed.pc = "returned"
    /\ timed.accepted >= 1
    /\ timed.result = "false"

\* C21: on one debouncer, with a burst of at most MaxBumps bumps, debounce()
\* eventually returns, and it returns once: it has returned exactly when it is
\* terminal, and it stays returned (the task dispatches the hashing call once).
C21_DebounceReturnsOnce ==
    /\ <>(timed.pc = "returned")
    /\ [](timed.returns = IF timed.pc = "returned" THEN 1 ELSE 0)
    /\ [][timed.returns = 1 => timed'.returns = 1]_vars

\* debounce() has returned after a burst of MaxBumps accepted bumps
C21_ReturnedAfterBurst ==
    /\ timed.pc = "returned"
    /\ timed.returns = 1
    /\ timed.accepted = MaxBumps

----------------------------------------------------------------------------
(* Progress (FairSpec) *)

\* the loop handles an input of the environment that invalidates hashes: a
\* topology change, a file event, a watcher fault
Disturbed ==
    \/ HandlesDiscovery
    \/ \E event \in FileEvents : LoopFileEvent(event)
    \/ \E reason \in FaultReasons : LoopWatcherFault(reason)

\* C22: if from some point on the loop is running with a topology that names
\* package f and handles no topology change, file event or watcher fault any
\* more, then the {f, None} entry is eventually and for good not Pending
\* (Hashes or Unavailable), and every call of get_file_hashes({f, None}) is
\* eventually sent a reply.
C22_PendingEventuallySettles ==
    (/\ <>[](loop = "running" /\ InTopology(HashSpec(F, NoInputs)))
     /\ <>[][~Disturbed]_vars)
    => /\ <>[](/\ ContainsKey(hashes, HashSpec(F, NoInputs))
               /\ Get(hashes, HashSpec(F, NoInputs)).tag \in {"Hashes", "Unavailable"})
       /\ \A q \in 1 .. MaxQueries :
             (q \in QueryIds /\ asked[q] = HashSpec(F, NoInputs))
                 ~> (q \in QueryIds /\ Answered(q))

\* a call for {f, None} was answered with the hashes the entry now holds; the
\* entry is settled, both channels are empty and the loop runs on
C22_EnqueuedCallAnswered ==
    /\ loop = "running" /\ ~exitReady
    /\ InTopology(HashSpec(F, NoInputs))
    /\ Get(hashes, HashSpec(F, NoInputs)).tag = "Hashes"
    /\ \E q \in QueryIds :
          /\ asked[q] = HashSpec(F, NoInputs)
          /\ replies[q] = <<OkReply(Get(hashes, HashSpec(F, NoInputs)).hashes)>>
    /\ hashUpdates = <<>> /\ queries = <<>>

----------------------------------------------------------------------------
(* Termination of the loop *)

\* C23: the loop's task never panics, whatever the topology, the file events,
\* the watcher faults and the hash results are and whether or not a client has
\* dropped the receiver of its reply channel when the loop answers.
C23_LoopNeverPanics == loop # "panicked"

\* a query for a spec whose entry is Hashes is next: its client may have gone
C23_QueryOnReadyEntryPending ==
    /\ loop = "running" /\ ~exitReady
    /\ hashUpdates = <<>>
    /\ queries # <<>>
    /\ ContainsKey(hashes, Head(queries).spec)
    /\ Asked.tag = "Hashes"
    /\ replies[Head(queries).tx] = <<>>

\* C24: when exit_rx is ready and the loop is at its select!, the only step the
\* loop takes is the return: no topology value is read, no file event, watcher
\* fault, completion or query is handled (the index, the topology held, the
\* replies and both channels' heads stay, while hash jobs may still deliver),
\* and the return itself sends no reply and spawns or ends no hash job.
C24_ExitBeforeEveryOtherBranch ==
    [][exitReady /\ loop = "running" =>
          \/ /\ loop' = "running"
             /\ hashes' = hashes
             /\ packageData' = packageData
             /\ replies' = replies
             /\ queries' = queries
             /\ Len(hashUpdates') >= Len(hashUpdates)
             /\ SubSeq(hashUpdates', 1, Len(hashUpdates)) = hashUpdates
          \/ /\ loop' = "exited"
             /\ replies' = replies
             /\ jobs' = jobs]_vars

\* exit_rx is ready while a completion and a query are ready too and a waiter
\* is enqueued on a Pending entry
C24_ExitWhileInputsReady ==
    /\ exitReady /\ loop = "running"
    /\ hashUpdates # <<>>
    /\ queries # <<>>
    /\ \E q \in QueryIds : \E spec \in PendingSpecs(hashes) : WaitsOn(hashes, spec, q)

\* C25: once the loop has returned, no call of get_file_hashes waits; the calls
\* that were unanswered when it returned (enqueued on a Pending entry, or
\* unhandled in the query channel) and the calls made afterwards all return
\* Err(Unavailable).
C25_CallsAfterTerminationUnavailable ==
    /\ [](loop = "exited" =>
            \A q \in QueryIds : asked[q] # NoSpec => CallResult(q) # Waiting)
    /\ [][loop # "exited" /\ loop' = "exited" =>
            \A q \in QueryIds : Outstanding(q) => CallResult(q)'.tag = "Unavailable"]_vars
    /\ [][loop = "exited" =>
            \A q \in QueryIds : asked[q] = NoSpec /\ asked'[q] # NoSpec =>
                CallResult(q)'.tag = "Unavailable"]_vars

\* the loop has returned on the closure of the file watcher: one call was
\* enqueued on a Pending entry then, another was not answered by the loop
C25_CallsLeftAtClosure ==
    /\ loop = "exited" /\ ~exitReady
    /\ \E q \in QueryIds : replies[q] = <<[tag |-> "Unavailable", reason |-> "file watcher closed"]>>
    /\ \E q \in QueryIds : asked[q] # NoSpec /\ replies[q] = <<>>

\* C26: the step in which the loop returns without exit_rx being ready (the
\* file-event channel is closed) sends Err(Unavailable("file watcher closed"))
\* to every waiter of every Pending entry and to nobody else and leaves no
\* index; and once the loop has returned it handles nothing: it stays
\* returned, with no index, and nothing more is sent to any client.
C26_WatcherClosureDrainsAndReturns ==
    /\ [][loop = "running" /\ ~exitReady /\ loop' = "exited" =>
            LET waiters == UNION {WaitersOf(hashes, k) : k \in DOMAIN hashes}
            IN  /\ hashes' = <<>>
                /\ \A q \in QueryIds :
                      SentTo(q) = IF q \in waiters
                                  THEN <<[tag |-> "Unavailable", reason |-> "file watcher closed"]>>
                                  ELSE <<>>]_vars
    /\ [][loop = "exited" =>
            /\ loop' = "exited"
            /\ hashes' = <<>>
            /\ replies' = replies
            /\ packageData' = packageData
            /\ queries' = <<>>
            /\ hashUpdates' = <<>>]_vars

\* the loop has returned on the closure of the file watcher and every call of
\* the run was a waiter then
C26_AllWaitersToldOfClosure ==
    /\ loop = "exited" /\ ~exitReady
    /\ \A q \in QueryIds :
          replies[q] = <<[tag |-> "Unavailable", reason |-> "file watcher closed"]>>

----------------------------------------------------------------------------
(* Watcher faults *)

\* what no handling of a watcher fault touches: both channels, the calls made,
\* exit_rx, and the hash jobs that were running
FaultFrame ==
    /\ queries' = queries /\ asked' = asked /\ hashUpdates' = hashUpdates
    /\ exitReady' = exitReady
    /\ \A v \in Versions : jobs[v].phase # "idle" => jobs'[v] = jobs[v]

\* the loop handles a watcher fault reported with this reason
HandlesFault(reason) == FaultFrame /\ LoopWatcherFault(reason)

\* C27: when the loop handles a watcher error or a lagged receiver it goes on
\* running with the topology value it holds; every waiter of every Pending
\* entry is sent Err(Unavailable(reason)) and nobody else anything; afterwards
\* the index has exactly the packages of the topology value held (none if it
\* is None or Err), each with the one entry {P, None}, Pending with no waiter,
\* under a Version nothing carried before, no two alike, with a debouncer of
\* its own whose job has just been spawned.
C27_FaultFlushesAndReschedules ==
    [][\A reason \in FaultReasons : HandlesFault(reason) =>
          LET waiters == UNION {WaitersOf(hashes, k) : k \in DOMAIN hashes}
          IN  /\ loop' = "running"
              /\ packageData' = packageData
              /\ \A q \in QueryIds :
                    SentTo(q) = IF q \in waiters
                                THEN <<[tag |-> "Unavailable", reason |-> reason]>>
                                ELSE <<>>
              /\ DOMAIN hashes' =
                    IF packageData.tag = "Ok" THEN PackagePaths(packageData) ELSE {}
              /\ \A k \in DOMAIN hashes' :
                    /\ DOMAIN hashes'[k] = {NoInputs}
                    /\ hashes'[k][NoInputs].tag = "Pending"
                    /\ hashes'[k][NoInputs].txs = <<>>
                    /\ hashes'[k][NoInputs].version \in Unissued
                    /\ hashes'[k][NoInputs].debouncer = hashes'[k][NoInputs].version
                    /\ jobs'[hashes'[k][NoInputs].version] =
                          [phase |-> "debounce", spec |-> HashSpec(k, NoInputs),
                           serial |-> SerialSome(0), stale |-> FALSE]
                    /\ \A o \in DOMAIN hashes' :
                          hashes'[o][NoInputs].version = hashes'[k][NoInputs].version => o = k]_vars

\* a waiter was told of a lagged watcher, and the package is Pending again
\* with no waiter while its new job is debouncing
C27_WaiterToldOfFault ==
    /\ loop = "running"
    /\ \E q \in QueryIds :
          replies[q] = <<[tag |-> "Unavailable", reason |-> "file watcher lagged"]>>
    /\ F \in DOMAIN hashes
    /\ hashes[F][NoInputs].tag = "Pending"
    /\ hashes[F][NoInputs].txs = <<>>
    /\ jobs[hashes[F][NoInputs].version].phase = "debounce"

----------------------------------------------------------------------------
(* Hash jobs *)

\* the HashUpdates in the completion channel that carry Version v
UpdatesOf(v) == {n \in DOMAIN hashUpdates : hashUpdates[n].version = v}

\* C28: every Pending entry has exactly one outstanding hash job with its
\* Version: the task is debouncing or hashing, or it has ended and its one
\* HashUpdate is in the completion channel; the job or the update is for the
\* entry's spec; and no two Pending entries have the same Version.
C28_PendingHasItsJob ==
    \A spec \in PendingSpecs(hashes) :
        LET version == Get(hashes, spec).version
        IN  /\ version \in Versions
            /\ IF jobs[version].phase \in {"debounce", "hash"}
               THEN jobs[version].spec = spec /\ UpdatesOf(version) = {}
               ELSE /\ Cardinality(UpdatesOf(version)) = 1
                    /\ \A n \in UpdatesOf(version) : hashUpdates[n].spec = spec
            /\ \A other \in PendingSpecs(hashes) :
                  Get(hashes, other).version = version => other = spec

\* two entries are Pending: the job of one has ended and its HashUpdate is
\* undelivered, the job of the other is still debouncing
C28_JobsAtDifferentStages ==
    /\ loop = "running"
    /\ \E spec \in PendingSpecs(hashes) :
          /\ jobs[Get(hashes, spec).version].phase = "idle"
          /\ UpdatesOf(Get(hashes, spec).version) # {}
    /\ \E spec \in PendingSpecs(hashes) :
          jobs[Get(hashes, spec).version].phase = "debounce"

----------------------------------------------------------------------------
(* The completion channel under load (BacklogSpec) *)

----------------------------------------------------------------------------
(* What a file event leaves alone *)

\* C30: a file event none of whose paths lies in a package of the index (no
\* key is the path or a directory containing it) leaves the index as it was
\* and spawns no hash job; and a file event changes only the {P, None}
\* entries of the packages P that are the innermost package of one of its
\* paths: the entries of every other package and the entries of P under other
\* inputs are as before.
C30_EventTouchesOnlyItsPackages ==
    [][\A event \in FileEvents : LoopFileEvent(event) =>
          LET Contains(k, path) == \/ k = path
                                   \/ /\ Len(k) < Len(path)
                                      /\ SubSeq(path, 1, Len(k)) = k
                                      /\ path[Len(k) + 1] = "/"
              Innermost(path) ==
                  LET roots == {k \in DOMAIN hashes : Contains(k, path)}
                  IN  {k \in roots : \A o \in roots : Len(o) <= Len(k)}
              attributed == UNION {Innermost(Anchor(path)) : path \in Range(event.paths)}
          IN  /\ attributed = {} =>
                    /\ hashes' = hashes
                    /\ \A v \in Versions : jobs[v].phase = "idle" => jobs'[v].phase = "idle"
              /\ DOMAIN hashes' = DOMAIN hashes
              /\ \A k \in DOMAIN hashes \ attributed : hashes'[k] = hashes[k]
              /\ \A k \in attributed :
                    /\ DOMAIN hashes'[k] = DOMAIN hashes[k]
                    /\ \A i \in DOMAIN hashes[k] \ {NoInputs} : hashes'[k][i] = hashes[k][i]]_vars

\* package f is the only one indexed, its entry is Hashes and no hash job or
\* completion is outstanding: a change outside f has nothing to restart
C30_SettledIndexNoJobs ==
    /\ loop = "running" /\ ~exitReady
    /\ DOMAIN hashes = {F}
    /\ hashes[F][NoInputs].tag = "Hashes"
    /\ Unissued = Versions

----------------------------------------------------------------------------
(* One file event, several paths *)

\* the jobs a handler has spawned for spec: j before, st after
SpawnedBy(j, st, spec) ==
    {v \in Versions : j[v].phase = "idle" /\ st.jobs[v].phase # "idle" /\ st.jobs[v].spec = spec}

\* how many times debouncer d was bumped by the handler that left st
BumpsOf(st, d) == Cardinality({n \in DOMAIN st.bumps : st.bumps[n] = d})

\* C31: whatever the index and whatever paths a file event lists, handling
\* the event calls bump() at most once on any debouncer and spawns at most
\* one hash job for each package, and a job it spawns is not bumped by the
\* same event: several paths of one package count once.
C31_OncePerPackage ==
    loop = "running" =>
        \A event \in FileEvents :
            LET st == HandleFileEvent(LoopState(hashes, jobs, replies), event)
            IN  ~st.overflow =>
                    /\ \A d \in Versions : BumpsOf(st, d) <= 1
                    /\ Len(st.bumps) <= Cardinality(ChangedPackages(hashes, event))
                    /\ \A k \in DOMAIN hashes :
                          LET spawned == SpawnedBy(jobs, st, HashSpec(k, NoInputs))
                          IN  /\ Cardinality(spawned) <= 1
                              /\ k \notin ChangedPackages(hashes, event) => spawned = {}
                              /\ \A v \in spawned :
                                    /\ st.jobs[v].serial = SerialSome(0)
                                    /\ BumpsOf(st, v) = 0

\* the entry of package f is Pending with its job debouncing, and the event
\* that lists two paths of f bumps the debouncer once
C31_TwoPathsOneBump ==
    /\ loop = "running" /\ ~exitReady
    /\ F \in DOMAIN hashes
    /\ hashes[F][NoInputs].tag = "Pending"
    /\ jobs[hashes[F][NoInputs].debouncer].serial = SerialSome(0)
    /\ HandleFileEvent(LoopState(hashes, jobs, replies),
                       FileEvent(<<Abs(PX), Abs(PY)>>)).bumps = <<hashes[F][NoInputs].debouncer>>

----------------------------------------------------------------------------
(* Adding and removing a package *)

\* key k is the path or a directory that contains it
ContainsPath(k, path) ==
    \/ k = path
    \/ /\ Len(k) < Len(path)
       /\ SubSeq(path, 1, Len(k)) = k
       /\ path[Len(k) + 1] = "/"

\* the packages of the index a file event is for: for each of its paths, the
\* innermost package that contains the path
EventPackages(event) ==
    UNION {LET roots == {k \in DOMAIN hashes : ContainsPath(k, Anchor(path))}
           IN  {k \in roots : \A o \in roots : Len(o) <= Len(k)} :
           path \in Range(event.paths)}

\* C32: an Ok topology update that adds or removes packages leaves no key for
\* a package it omits and leaves the entries of the packages it keeps as they
\* were; and while the loop runs, a file event for package P, a completion for
\* P and a query for P leave the entry of every other package as it was. So
\* after P was added, used and removed, every other package's entry is as it
\* was before.
C32_AddThenRemoveRestoresOthers ==
    /\ [][HandlesDiscovery /\ packageData'.tag = "Ok" /\ loop' = "running" =>
            /\ \A k \in DOMAIN hashes \ PackagePaths(packageData') : k \notin DOMAIN hashes'
            /\ \A k \in DOMAIN hashes \cap PackagePaths(packageData') :
                  k \in DOMAIN hashes' /\ hashes'[k] = hashes[k]]_vars
    /\ [][\A event \in FileEvents : \A P \in DOMAIN hashes :
            EventPackages(event) = {P} /\ LoopFileEvent(event) /\ loop' = "running" =>
                \A k \in DOMAIN hashes \ {P} :
                    k \in DOMAIN hashes' /\ hashes'[k] = hashes[k]]_vars
    /\ [][LoopHashUpdate /\ loop' = "running" =>
            \A k \in DOMAIN hashes \ {Head(hashUpdates).spec.package_path} :
                k \in DOMAIN hashes' /\ hashes'[k] = hashes[k]]_vars
    /\ [][HandlesQuery /\ loop' = "running" =>
            \A k \in DOMAIN hashes \ {Head(queries).spec.package_path} :
                k \in DOMAIN hashes' /\ hashes'[k] = hashes[k]]_vars

\* package f was added beside the nested package, whose entry is settled
C32_PackageAddedBesideSettledOne ==
    /\ loop = "running" /\ ~exitReady
    /\ {F, FN} \subseteq DOMAIN hashes
    /\ hashes[FN][NoInputs].tag = "Hashes"
    /\ hashes[F][NoInputs].tag = "Pending"

----------------------------------------------------------------------------
(* A topology update and the packages it keeps *)

\* the jobs spawned by the step from this state to the next
SpawnedNow == {v \in Versions : jobs[v].phase = "idle" /\ jobs'[v].phase # "idle"}

\* C33: an Ok topology update leaves the entry of every package that is both
\* in the index and named by the new topology unchanged, state for state
\* (Hashes with the same hashes, Pending with the same Version, debouncer and
\* waiters, Unavailable with the same reason), leaves the running jobs alone,
\* and spawns a hash job only for {P, None} of a named package P that had no
\* such entry before the update.
C33_OkUpdateKeepsIndexedPackages ==
    [][HandlesDiscovery /\ packageData'.tag = "Ok" =>
        /\ \A k \in DOMAIN hashes \cap PackagePaths(packageData') :
              k \in DOMAIN hashes' /\ hashes'[k] = hashes[k]
        /\ \A v \in Versions \ SpawnedNow : jobs'[v] = jobs[v]
        /\ \A v \in SpawnedNow :
              /\ jobs'[v].spec.inputs = NoInputs
              /\ jobs'[v].spec.package_path \in PackagePaths(packageData')
              /\ ~ContainsKey(hashes, jobs'[v].spec)
              /\ \A w \in SpawnedNow : jobs'[w].spec = jobs'[v].spec => w = v]_vars

\* an Ok topology naming both packages has been handled: the settled entry of
\* f is as it was and only the nested package has a job, not yet bumped
C33_SettledPackageKeptNewOneQueued ==
    /\ loop = "running" /\ ~exitReady
    /\ packageData.tag = "Ok" /\ PackagePaths(packageData) = {F, FN}
    /\ hashes[F][NoInputs].tag = "Hashes"
    /\ hashes[FN][NoInputs].tag = "Pending" /\ hashes[FN][NoInputs].txs = <<>>
    /\ \E v \in Versions :
          /\ jobs[v] = NewJob(HashSpec(FN, NoInputs))
          /\ hashes[FN][NoInputs].version = v
          /\ \A w \in Versions \ {v} : jobs[w].phase = "idle"

====
